---- MODULE Spec2Model ----
(***************************************************************************)
(* Easy Bioclim (src/app.py): one Streamlit script run, top to bottom.     *)
(* A run initialises Earth Engine, renders the map/upload/label widgets,   *)
(* parses and validates the labels, loads the uploaded GeoJSON through a   *)
(* temporary file, samples WORLDCLIM/V1/BIO at the points and assembles    *)
(* the transposed result table.  Streamlit re-runs the script on every     *)
(* interaction; only the Earth Engine session survives a re-run.           *)
(*                                                                         *)
(* Python strings are sequences of one-character strings, so that split,   *)
(* strip, lower, suffix and substring tests are computed, not looked up.   *)
(* The @st.cache_data wrapper of uploaded_file_to_gdf is not modelled: a   *)
(* cache hit returns an earlier successful result without running the      *)
(* body, and a raised exception is never cached.                           *)
(***************************************************************************)
EXTENDS Integers, Sequences, FiniteSets, TLC

(* ------------------------------ bounds -------------------------------- *)

\* Longest geometry list enumerated for an uploaded file (besides the one
\* oversized sample of MAX_AREAS + 1 points).
MaxGeoms == 2

\* Longest raw label string enumerated over RawAlphabet (besides RawSamples).
MaxRawLen == 2

(* ------------------------- program constants --------------------------- *)

MAX_FILE_SIZE == 10 * 1024 * 1024

ALLOWED_EXTENSIONS == { <<".", "g", "e", "o", "j", "s", "o", "n">> }

MAX_AREAS == 50

MAX_AREA_NAME_LENGTH == 100

(* --------------------------- Python strings ---------------------------- *)

UpperAlpha == <<"A", "B", "C", "D", "E", "F", "G", "H", "I", "J", "K", "L", "M",
                "N", "O", "P", "Q", "R", "S", "T", "U", "V", "W", "X", "Y", "Z">>

LowerAlpha == <<"a", "b", "c", "d", "e", "f", "g", "h", "i", "j", "k", "l", "m",
                "n", "o", "p", "q", "r", "s", "t", "u", "v", "w", "x", "y", "z">>

\* str.lower on one character.
LowerChar(c) ==
    IF \E i \in 1..26 : UpperAlpha[i] = c
    THEN LowerAlpha[CHOOSE i \in 1..26 : UpperAlpha[i] = c]
    ELSE c

\* str.lower
Lower(s) == [i \in 1..Len(s) |-> LowerChar(s[i])]

\* `sub in s` for strings.
Contains(s, sub) ==
    \E i \in 0..(Len(s) - Len(sub)) :
        \A j \in 1..Len(sub) : s[i + j] = sub[j]

\* Characters removed by str.strip() (ASCII whitespace of the samples).
Whitespace == {" ", "\t", "\n", "\r"}

\* str.strip: drop the leading and the trailing whitespace.
Strip(s) ==
    LET keep == {i \in 1..Len(s) : s[i] \notin Whitespace}
    IN  IF keep = {} THEN <<>>
        ELSE LET lo == CHOOSE i \in keep : \A j \in keep : i <= j
                 hi == CHOOSE i \in keep : \A j \in keep : j <= i
             IN  SubSeq(s, lo, hi)

\* The k-th smallest member of a set of positions.
Nth(S, k) == CHOOSE i \in S : Cardinality({j \in S : j < i}) = k - 1

\* The elements of xs at the positions in S, in order.
AtPositions(xs, S) == [k \in 1..Cardinality(S) |-> xs[Nth(S, k)]]

\* str.split(","): the pieces between the commas, empty pieces included.
Split(s) ==
    LET commas == {i \in 1..Len(s) : s[i] = ","}
        n == Cardinality(commas) + 1
    IN  [k \in 1..n |->
            SubSeq(s,
                   IF k = 1 THEN 1 ELSE Nth(commas, k - 1) + 1,
                   IF k = n THEN Len(s) ELSE Nth(commas, k) - 1)]

\* [x for x in xs if x]: the non-empty elements, in order.
SelectNonEmpty(xs) == AtPositions(xs, {i \in 1..Len(xs) : xs[i] # <<>>})

\* [area.strip() for area in input_areas.split(",") if area.strip()]
ParseAreasBuggy(raw) == Split(raw)

ParseAreas(raw) ==
    LET pieces == Split(raw)
    IN  SelectNonEmpty([i \in 1..Len(pieces) |-> Strip(pieces[i])])

\* Path(name).name: the final path component (POSIX: "/" separates, trailing
\* slashes are ignored).
PathName(name) ==
    LET ends == {i \in 1..Len(name) : name[i] # "/"}
    IN  IF ends = {} THEN <<>>
        ELSE LET hi == CHOOSE i \in ends : \A j \in ends : j <= i
                 seps == {i \in 1..hi : name[i] = "/"}
                 lo == IF seps = {} THEN 1
                       ELSE 1 + CHOOSE i \in seps : \A j \in seps : j <= i
             IN  SubSeq(name, lo, hi)

\* Path(name).suffix: from the last dot of the final component, unless that
\* dot is its first or its last character.
PathSuffix(name) ==
    LET n == PathName(name)
        dots == {i \in 1..Len(n) : n[i] = "."}
    IN  IF dots = {} THEN <<>>
        ELSE LET i == CHOOSE d \in dots : \A e \in dots : e <= d
             IN  IF 1 < i /\ i < Len(n) THEN SubSeq(n, i, Len(n)) ELSE <<>>

(* ---------------------------- validators ------------------------------- *)

\* The forbidden pieces of a file name.
DangerousNameParts ==
    { <<".", ".">>, <<"/">>, <<"\\">>, <<"<">>, <<">">>, <<"|">>, <<"*">>, <<"?">> }

\* The forbidden characters of a label.
DangerousLabelChars == {"<", ">", "\"", "'", "&", "\n", "\r", "\t"}

\* validate_file_upload, as [ok, message].
ValidateFileUploadNoSize(f) ==
    IF ~f.present THEN [ok |-> FALSE, msg |-> "no_file"]
    ELSE IF Lower(PathSuffix(f.name)) \notin ALLOWED_EXTENSIONS
         THEN [ok |-> FALSE, msg |-> "extension"]
    ELSE IF \E p \in DangerousNameParts : Contains(f.name, p)
         THEN [ok |-> FALSE, msg |-> "name"]
    ELSE [ok |-> TRUE, msg |-> "valid"]

validate_file_upload(f) ==
    IF ~f.present THEN [ok |-> FALSE, msg |-> "no_file"]
    ELSE IF f.size > MAX_FILE_SIZE THEN [ok |-> FALSE, msg |-> "too_large"]
    ELSE IF Lower(PathSuffix(f.name)) \notin ALLOWED_EXTENSIONS
         THEN [ok |-> FALSE, msg |-> "extension"]
    ELSE IF \E p \in DangerousNameParts : Contains(f.name, p)
         THEN [ok |-> FALSE, msg |-> "name"]
    ELSE [ok |-> TRUE, msg |-> "valid"]

\* validate_area_names, as [ok, message]; the loop returns at the first
\* offending label, the length test before the character test.
ValidateAreaNamesOffByOne(areas) ==
    IF areas = <<>> THEN [ok |-> FALSE, msg |-> "empty"]
    ELSE IF Len(areas) > MAX_AREAS + 1 THEN [ok |-> FALSE, msg |-> "too_many"]
    ELSE IF \E i \in 1..Len(areas) : Len(areas[i]) > MAX_AREA_NAME_LENGTH
         THEN [ok |-> FALSE, msg |-> "too_long"]
    ELSE IF \E i \in 1..Len(areas) :
                \E k \in 1..Len(areas[i]) : areas[i][k] \in DangerousLabelChars
         THEN [ok |-> FALSE, msg |-> "bad_char"]
    ELSE [ok |-> TRUE, msg |-> "valid"]

validate_area_names(areas) ==
    IF areas = <<>> THEN [ok |-> FALSE, msg |-> "empty"]
    ELSE IF Len(areas) > MAX_AREAS THEN [ok |-> FALSE, msg |-> "too_many"]
    ELSE LET bad == {i \in 1..Len(areas) :
                        \/ Len(areas[i]) > MAX_AREA_NAME_LENGTH
                        \/ \E k \in 1..Len(areas[i]) :
                               areas[i][k] \in DangerousLabelChars}
         IN  IF bad = {} THEN [ok |-> TRUE, msg |-> "valid"]
             ELSE LET i == CHOOSE b \in bad : \A c \in bad : b <= c
                  IN  IF Len(areas[i]) > MAX_AREA_NAME_LENGTH
                      THEN [ok |-> FALSE, msg |-> "too_long"]
                      ELSE [ok |-> FALSE, msg |-> "bad_char"]

(* ------------------------------ pandas -------------------------------- *)

\* A cell: a number, a string (n identifies it) or NaN (a missing value).
Num(n) == [t |-> "num", n |-> n]

Str(n) == [t |-> "str", n |-> n]

NaN == [t |-> "nan", n |-> 0]

\* The frame that was never built (df_final before its assignment).
NoFrame == [index |-> <<>>, columns |-> <<>>, values |-> <<>>]

\* A properties dict is the sequence of its items, in the dict's order.
HasKey(row, k) == \E i \in 1..Len(row) : row[i].k = k

GetKey(row, k) ==
    IF HasKey(row, k) THEN row[CHOOSE i \in 1..Len(row) : row[i].k = k].v ELSE NaN

\* Append to cols the keys of row that cols lacks, in the row's order.
RECURSIVE AddKeys(_, _)
AddKeys(cols, row) ==
    IF row = <<>> THEN cols
    ELSE AddKeys(IF \E i \in 1..Len(cols) : cols[i] = Head(row).k
                 THEN cols ELSE Append(cols, Head(row).k),
                 Tail(row))

\* The columns of pd.DataFrame(list of dicts): every key, by first appearance.
RECURSIVE FrameColumns(_, _)
FrameColumns(cols, rows) ==
    IF rows = <<>> THEN cols
    ELSE FrameColumns(AddKeys(cols, Head(rows)), Tail(rows))

\* pd.DataFrame(bio_data): one row per dict, NaN where a dict lacks a key.
DataFrameOfDicts(rows) ==
    LET cols == FrameColumns(<<>>, rows)
    IN  [index |-> [i \in 1..Len(rows) |-> i - 1],
         columns |-> cols,
         values |-> [i \in 1..Len(rows) |->
                        [j \in 1..Len(cols) |-> GetKey(rows[i], cols[j])]]]

\* [x for x in xs if x in keep], for a sequence of column names.
FilterSeq(xs, keep) == AtPositions(xs, {i \in 1..Len(xs) : xs[i] \in keep})

ColumnPos(df, c) == CHOOSE j \in 1..Len(df.columns) : df.columns[j] = c

\* A column's dtype is float or int: no cell of it holds a string (missing
\* cells make an integer column float).
IsNumericColumn(df, c) ==
    \A i \in 1..Len(df.values) : df.values[i][ColumnPos(df, c)].t # "str"

\* df.select_dtypes(include=[float, int]).columns.tolist()
NumericColumns(df) ==
    FilterSeq(df.columns,
              {df.columns[j] : j \in {k \in 1..Len(df.columns) :
                                         IsNumericColumn(df, df.columns[k])}})

\* [col for col in df_extracted.columns if 'bio' in col.lower()]
BioNamedColumnsCaseSensitive(df) ==
    FilterSeq(df.columns,
              {df.columns[j] : j \in {k \in 1..Len(df.columns) :
                                         Contains(df.columns[k], <<"b", "i", "o">>)}})

BioNamedColumns(df) ==
    FilterSeq(df.columns,
              {df.columns[j] : j \in {k \in 1..Len(df.columns) :
                                         Contains(Lower(df.columns[k]), <<"b", "i", "o">>)}})

\* bio_columns: the 'bio' columns, or all numeric columns when there is none.
BioColumns(df) ==
    IF BioNamedColumns(df) # <<>> THEN BioNamedColumns(df) ELSE NumericColumns(df)

\* df[cols]
SelectColumns(df, cols) ==
    [index |-> df.index,
     columns |-> cols,
     values |-> [i \in 1..Len(df.values) |->
                    [j \in 1..Len(cols) |-> df.values[i][ColumnPos(df, cols[j])]]]]

\* pd.concat([a.reset_index(drop=True), b.reset_index(drop=True)], axis=1)
\* for frames of equal length.
ConcatColumns(a, b) ==
    [index |-> [i \in 1..Len(a.values) |-> i - 1],
     columns |-> a.columns \o b.columns,
     values |-> [i \in 1..Len(a.values) |-> a.values[i] \o b.values[i]]]

\* df.T
Transpose(df) ==
    [index |-> df.columns,
     columns |-> df.index,
     values |-> [c \in 1..Len(df.columns) |->
                    [r \in 1..Len(df.index) |-> df.values[r][c]]]]

(* ------------------------------ geometry ------------------------------- *)

latitude == <<"l", "a", "t", "i", "t", "u", "d", "e">>

longitude == <<"l", "o", "n", "g", "i", "t", "u", "d", "e">>

IsPoint(g) == g.kind = "Point"

\* pd.DataFrame({"latitude": gdf.geometry.y, "longitude": gdf.geometry.x})
PontosDfSwapped(gdf) ==
    [index |-> [i \in 1..Len(gdf) |-> i - 1],
     columns |-> <<latitude, longitude>>,
     values |-> [i \in 1..Len(gdf) |-> <<Num(gdf[i].x), Num(gdf[i].y)>>]]

PontosDf(gdf) ==
    [index |-> [i \in 1..Len(gdf) |-> i - 1],
     columns |-> <<latitude, longitude>>,
     values |-> [i \in 1..Len(gdf) |-> <<Num(gdf[i].y), Num(gdf[i].x)>>]]

(* ------------------------------ exceptions ----------------------------- *)

\* An exception: what it reports and the two counts its message carries.
Exc(tag, a, b) == [tag |-> tag, a |-> a, b |-> b]

NoExc == Exc("none", 0, 0)

(* --------------------------- result assembly --------------------------- *)

\* properties of each feature, the empty ones dropped (lines 391-395).
BioData(features) == SelectNonEmpty(features)

\* Lines 385-426 after getInfo returned `features`: the outcome of the
\* extraction block as [exc, bio_columns, df_final].
AssembleNoCountCheck(features, pontos_df, areas) ==
    IF features = <<>> THEN
        [exc |-> Exc("no_data", 0, 0), bio_columns |-> <<>>, df_final |-> NoFrame]
    ELSE IF BioData(features) = <<>> THEN
        [exc |-> Exc("empty_data", 0, 0), bio_columns |-> <<>>, df_final |-> NoFrame]
    ELSE LET df_extracted == DataFrameOfDicts(BioData(features))
             cols == BioColumns(df_extracted)
             n == IF Len(pontos_df.values) <= Len(df_extracted.values)
                  THEN Len(pontos_df.values) ELSE Len(df_extracted.values)
             cut(df) == [df EXCEPT !.values = SubSeq(df.values, 1, n)]
             joined == ConcatColumns(cut(pontos_df),
                                     cut(SelectColumns(df_extracted, cols)))
         IN  IF cols = <<>> THEN
                 [exc |-> Exc("no_variable", 0, 0), bio_columns |-> <<>>,
                  df_final |-> NoFrame]
             ELSE
                 [exc |-> NoExc, bio_columns |-> cols,
                  df_final |-> Transpose([joined EXCEPT !.index = SubSeq(areas, 1, n)])]

Assemble(features, pontos_df, areas) ==
    IF features = <<>> THEN
        [exc |-> Exc("no_data", 0, 0), bio_columns |-> <<>>, df_final |-> NoFrame]
    ELSE IF BioData(features) = <<>> THEN
        [exc |-> Exc("empty_data", 0, 0), bio_columns |-> <<>>, df_final |-> NoFrame]
    ELSE LET df_extracted == DataFrameOfDicts(BioData(features))
             cols == BioColumns(df_extracted)
         IN  IF cols = <<>> THEN
                 [exc |-> Exc("no_variable", 0, 0), bio_columns |-> <<>>,
                  df_final |-> NoFrame]
             ELSE IF Len(pontos_df.values) = Len(df_extracted.values) THEN
                 LET joined == ConcatColumns(pontos_df,
                                             SelectColumns(df_extracted, cols))
                 IN  [exc |-> NoExc, bio_columns |-> cols,
                      df_final |-> Transpose([joined EXCEPT !.index = areas])]
             ELSE
                 [exc |-> Exc("row_mismatch", Len(pontos_df.values),
                              Len(df_extracted.values)),
                  bio_columns |-> cols, df_final |-> NoFrame]

(* ------------------------------- inputs -------------------------------- *)

SeqsUpTo(S, n) == UNION {[1..k -> S] : k \in 0..n}

Repeat(c, n) == [i \in 1..n |-> c]

\* n labels "A" joined by commas.
CommaJoined(n) == [i \in 1..(2 * n - 1) |-> IF i % 2 = 1 THEN "A" ELSE ","]

Point1 == [kind |-> "Point", y |-> -2780, x |-> -5010]

Point2 == [kind |-> "Point", y |-> -2785, x |-> -5020]

Line1 == [kind |-> "LineString", y |-> 0, x |-> 0]

GeometrySamples == {Point1, Point2, Line1}

\* What the uploaded bytes hold: unparseable, or a list of features.
FileContents ==
    {[ok |-> FALSE, feats |-> <<>>]}
    \cup {[ok |-> TRUE, feats |-> g] : g \in SeqsUpTo(GeometrySamples, MaxGeoms)}
    \cup {[ok |-> TRUE, feats |-> Repeat(Point1, n)] : n \in {MAX_AREAS, MAX_AREAS + 1}}

GoodName == <<"a", ".", "g", "e", "o", "j", "s", "o", "n">>

FileNames ==
    { GoodName,
      <<"A", ".", "G", "E", "O", "J", "S", "O", "N">>,
      <<"a", ".", "k", "m", "l">>,
      <<"a">>,
      <<"g", "e", "o", "j", "s", "o", "n">>,
      <<"a", "<", ".", "g", "e", "o", "j", "s", "o", "n">>,
      <<"a", ".", ".", "g", "e", "o", "j", "s", "o", "n">>,
      <<"b", "/", "a", ".", "g", "e", "o", "j", "s", "o", "n">>,
      <<"a", "?", ".", "g", "e", "o", "j", "s", "o", "n">> }

FileSizes == {1, MAX_FILE_SIZE, MAX_FILE_SIZE + 1}

File(name, size, content) ==
    [present |-> TRUE, name |-> name, size |-> size, content |-> content]

\* st.file_uploader returned None.
NoFile == [present |-> FALSE, name |-> <<>>, size |-> 0,
           content |-> [ok |-> FALSE, feats |-> <<>>]]

OnePoint == [ok |-> TRUE, feats |-> <<Point1>>]

\* The uploads tried: every name and every size with a one-point file, every
\* content under a valid name and size, and an oversized file of each content
\* kind.
FileSamples ==
    {NoFile}
    \cup {File(n, 1, OnePoint) : n \in FileNames}
    \cup {File(GoodName, z, OnePoint) : z \in FileSizes}
    \cup {File(GoodName, 1, c) : c \in FileContents}
    \cup {File(<<"a", ".", "k", "m", "l">>, MAX_FILE_SIZE + 1, OnePoint)}

RawAlphabet == {"A", " ", ","}

RawSamples ==
    { <<"A", ",", "B">>,
      <<"B", ",", "A">>,
      <<"A", ",", " ", "B", " ", ",", "C", ",">>,
      <<"A", "\t", "B">>,
      <<"\t", "A", "\n">>,
      <<"A", "&", "B", ",", "A">>,
      <<"A", ",", "<">>,
      <<" ", "A", " ", "A", " ", ",", ",", " ", "B">>,
      Repeat("A", MAX_AREA_NAME_LENGTH),
      Repeat("A", MAX_AREA_NAME_LENGTH + 1),
      <<" ">> \o Repeat("A", MAX_AREA_NAME_LENGTH) \o <<" ">>,
      CommaJoined(MAX_AREAS),
      CommaJoined(MAX_AREAS + 1) }

\* The label strings tried (st.text_area's value).
RawInputs == SeqsUpTo(RawAlphabet, MaxRawLen) \cup RawSamples

Item(k, v) == [k |-> k, v |-> v]

BIO01 == <<"B", "I", "O", "0", "1">>

bio12 == <<"b", "i", "o", "1", "2">>

elev == <<"e", "l", "e", "v">>

name == <<"n", "a", "m", "e">>

\* The properties a sampled feature may carry.
PropertySamples ==
    { <<Item(BIO01, Num(180)), Item(bio12, Num(1500))>>,
      <<>>,
      <<Item(elev, Num(5)), Item(name, Str(1))>>,
      <<Item(name, Str(2)), Item(elev, Str(3))>> }

\* sampled.getInfo()['features'] for n points: the service may return fewer
\* or more features than points.
FeatureLists(n) ==
    SeqsUpTo(PropertySamples, IF n <= MaxGeoms THEN n + 1 ELSE MaxGeoms + 1)

RequiredFields == {"client_email", "private_key", "project_id"}

\* st.secrets: the key is absent, or holds text that is not JSON, or a JSON
\* object in which `fields` are the required fields with a non-empty value.
SecretStates ==
    {[read |-> TRUE, present |-> FALSE, json_ok |-> FALSE, fields |-> {}],
     [read |-> TRUE, present |-> TRUE, json_ok |-> FALSE, fields |-> {}]}
    \cup {[read |-> TRUE, present |-> TRUE, json_ok |-> TRUE, fields |-> f] :
              f \in SUBSET RequiredFields}

\* st.secrets was not read in this run.
SecretUnread == [read |-> FALSE, present |-> FALSE, json_ok |-> FALSE, fields |-> {}]

(* ------------------------------- state --------------------------------- *)

VARIABLES
    pc,             \* position of the script run
    eeInitialized,  \* the process-wide Earth Engine session is usable
    secret,         \* what st.secrets held when initialize_ee read it
    initSteps,      \* initialize_ee's steps on the credentials, in order
    ui,             \* what the run has rendered, in order
    data,           \* st.file_uploader's value
    input_areas,    \* st.text_area's value
    areas_list,
    gdf,            \* the GeoDataFrame's geometries (<<>>: none)
    tmpFile,        \* the temporary file: "none", "exists" or "removed"
    tmpWritten,     \* open(file_path, "wb") created the file
    readCalled,     \* gpd.read_file was called
    cleanupError,   \* os.remove raised and the handler logged the warning
    loadResult,     \* uploaded_file_to_gdf's pending return or exception
    exc,            \* the exception in flight, or the one last handled
    caught,         \* the handlers that caught it, in order
    eeCalls,        \* Earth Engine calls of the processing block, in order
    pontos_df,
    features_list,  \* what sampled.getInfo() returned
    bio_columns,
    df_final

vars == <<pc, eeInitialized, secret, initSteps, ui, data, input_areas, areas_list,
          gdf, tmpFile, tmpWritten, readCalled, cleanupError, loadResult, exc, caught,
          eeCalls, pontos_df, features_list, bio_columns, df_final>>

\* One rendered element: where, what kind, which one, and the detail shown.
Msg(place, kind, tag, detail) ==
    [place |-> place, kind |-> kind, tag |-> tag, detail |-> detail]

Main(kind, tag) == Msg("main", kind, tag, NoExc)

\* The values every run starts from.
RunInit ==
    /\ pc = "start"
    /\ secret = SecretUnread
    /\ initSteps = <<>>
    /\ ui = <<>>
    /\ data = NoFile
    /\ input_areas = <<>>
    /\ areas_list = <<>>
    /\ gdf = <<>>
    /\ tmpFile = "none"
    /\ tmpWritten = FALSE
    /\ readCalled = FALSE
    /\ cleanupError = FALSE
    /\ loadResult = NoExc
    /\ exc = NoExc
    /\ caught = <<>>
    /\ eeCalls = <<>>
    /\ pontos_df = NoFrame
    /\ features_list = <<>>
    /\ bio_columns = <<>>
    /\ df_final = NoFrame

Init == RunInit /\ eeInitialized = FALSE

(* ------------------------------ actions -------------------------------- *)

\* required_fields that json_object.get(field) finds missing or empty.
MissingFieldsNone(s) == {}

MissingFields(s) == RequiredFields \ s.fields

\* st.stop(): the run ends here.
Stop(shown) ==
    /\ ui' = ui \o shown
    /\ pc' = "stopped"

\* Lines 74-153 and 211-212: initialize_ee and the gate on its result.
InitializeEE ==
    /\ pc = "start"
    /\ \/ \* ee.Number(1).getInfo() answers: already initialised.
          /\ eeInitialized
          /\ pc' = "page"
          /\ UNCHANGED <<eeInitialized, secret, initSteps, ui>>
       \/ \* the key is absent: local initialisation.
          /\ ~eeInitialized
          /\ \E s \in SecretStates, ok \in BOOLEAN :
                /\ ~s.present
                /\ secret' = s
                /\ initSteps' = <<"ee.Initialize">>
                /\ eeInitialized' = ok
                /\ IF ok
                   THEN /\ ui' = ui \o <<Main("warning", "local_mode"),
                                        Msg("sidebar", "info", "ee_local", NoExc)>>
                        /\ pc' = "page"
                   ELSE Stop(<<Main("warning", "local_mode"),
                               Main("error", "ee_init_failed"),
                               Msg("expander", "error", "detail", Exc("ee_error", 0, 0))>>)
       \/ \* json.loads raises JSONDecodeError.
          /\ ~eeInitialized
          /\ \E s \in SecretStates :
                /\ s.present /\ ~s.json_ok
                /\ secret' = s
                /\ initSteps' = <<"json.loads">>
                /\ Stop(<<Main("error", "invalid_json")>>)
          /\ UNCHANGED eeInitialized
       \/ \* a required field is missing.
          /\ ~eeInitialized
          /\ \E s \in SecretStates :
                /\ s.present /\ s.json_ok /\ MissingFields(s) # {}
                /\ secret' = s
                /\ initSteps' = <<"json.loads", "validate_fields">>
                /\ Stop(<<Msg("main", "error", "missing_fields",
                              Exc("missing_fields", Cardinality(MissingFields(s)), 0))>>)
          /\ UNCHANGED eeInitialized
       \/ \* the credentials are used; building them or ee.Initialize may raise.
          /\ ~eeInitialized
          /\ \E s \in SecretStates, outcome \in {"ok", "credentials_error", "initialize_error"} :
                /\ s.present /\ s.json_ok /\ MissingFields(s) = {}
                /\ secret' = s
                /\ initSteps' =
                      <<"json.loads", "validate_fields", "ServiceAccountCredentials">>
                      \o (IF outcome = "credentials_error" THEN <<>> ELSE <<"ee.Initialize">>)
                /\ eeInitialized' = (outcome = "ok")
                /\ IF outcome = "ok"
                   THEN /\ ui' = ui \o <<Msg("sidebar", "success", "ee_initialized", NoExc)>>
                        /\ pc' = "page"
                   ELSE Stop(<<Main("error", "ee_init_failed"),
                               Msg("expander", "error", "detail", Exc("ee_error", 0, 0))>>)
    /\ UNCHANGED <<data, input_areas, areas_list, gdf, tmpFile, tmpWritten, readCalled, cleanupError,
                   loadResult, exc, caught, eeCalls, pontos_df, features_list,
                   bio_columns, df_final>>

\* Lines 214-337: the header, the sidebar, the map, the uploader and the
\* label field; the two inputs are read here.
RenderPage ==
    /\ pc = "page"
    /\ \E f \in FileSamples, r \in RawInputs :
          /\ data' = f
          /\ input_areas' = r
    /\ ui' = ui \o <<Main("widget", "header"), Main("widget", "map"),
                     Main("widget", "file_uploader"), Main("widget", "text_area")>>
    /\ pc' = "split"
    /\ UNCHANGED <<eeInitialized, secret, initSteps, areas_list, gdf, tmpFile,
                   tmpWritten, readCalled, cleanupError, loadResult, exc, caught, eeCalls,
                   pontos_df, features_list, bio_columns, df_final>>

\* Lines 339-341: areas_list from the raw string.
SplitAreas ==
    /\ pc = "split"
    /\ \/ /\ input_areas = <<>>
          /\ areas_list' = <<>>
          /\ pc' = "main"
       \/ /\ input_areas # <<>>
          /\ areas_list' = ParseAreas(input_areas)
          /\ pc' = "validate"
    /\ UNCHANGED <<eeInitialized, secret, initSteps, ui, data, input_areas, gdf,
                   tmpFile, tmpWritten, readCalled, cleanupError, loadResult, exc, caught, eeCalls,
                   pontos_df, features_list, bio_columns, df_final>>

\* Lines 343-347: an invalid list is reported and emptied.
ValidateAreas ==
    /\ pc = "validate"
    /\ LET v == validate_area_names(areas_list)
       IN  \/ /\ v.ok
              /\ UNCHANGED <<areas_list, ui>>
           \/ /\ ~v.ok
              /\ ui' = Append(ui, Msg("main", "error", "labels_invalid", Exc(v.msg, 0, 0)))
              /\ areas_list' = <<>>
    /\ pc' = "main"
    /\ UNCHANGED <<eeInitialized, secret, initSteps, data, input_areas, gdf, tmpFile,
                   tmpWritten, readCalled, cleanupError, loadResult, exc, caught, eeCalls,
                   pontos_df, features_list, bio_columns, df_final>>

\* Lines 350 and 489-492: which branch of the processing block runs.
MainGate ==
    /\ pc = "main"
    /\ \/ /\ data.present /\ areas_list # <<>>
          /\ pc' = "load"
          /\ UNCHANGED ui
       \/ /\ data.present /\ areas_list = <<>>
          /\ ui' = Append(ui, Main("warning", "need_labels"))
          /\ pc' = "reference"
       \/ /\ ~data.present /\ areas_list # <<>>
          /\ ui' = Append(ui, Main("warning", "need_file"))
          /\ pc' = "reference"
       \/ /\ ~data.present /\ areas_list = <<>>
          /\ pc' = "reference"
          /\ UNCHANGED ui
    /\ UNCHANGED <<eeInitialized, secret, initSteps, data, input_areas, areas_list, gdf,
                   tmpFile, tmpWritten, readCalled, cleanupError, loadResult, exc, caught, eeCalls,
                   pontos_df, features_list, bio_columns, df_final>>

\* What lines 177-196 do with a file that passed validation, given whether
\* open() and write() succeed: [written, read, result].
WriteAndRead(f, opened, wrote) ==
    IF ~opened THEN [written |-> FALSE, read |-> FALSE, result |-> Exc("io_error", 0, 0)]
    ELSE IF ~wrote THEN [written |-> TRUE, read |-> FALSE, result |-> Exc("io_error", 0, 0)]
    ELSE [written |-> TRUE, read |-> TRUE,
          result |-> IF ~f.content.ok THEN Exc("parse_error", 0, 0)
                     ELSE IF f.content.feats = <<>> THEN Exc("empty_file", 0, 0)
                     ELSE IF Len(f.content.feats) > MAX_AREAS
                          THEN Exc("too_many_geometries", Len(f.content.feats), 0)
                     ELSE Exc("return", 0, 0)]

\* Lines 158-196: uploaded_file_to_gdf up to its finally clause.
LoadFile ==
    /\ pc = "load"
    /\ \/ \* validation fails: ValueError before any file is touched.
          /\ ~validate_file_upload(data).ok
          /\ exc' = Exc(validate_file_upload(data).msg, 0, 0)
          /\ caught' = <<"uploaded_file_to_gdf">>
          /\ pc' = "except_top"
          /\ UNCHANGED <<tmpFile, tmpWritten, readCalled, loadResult>>
       \/ \* the file is written and read; the finally clause is next.
          /\ validate_file_upload(data).ok
          /\ \E opened \in BOOLEAN, wrote \in BOOLEAN :
                LET r == WriteAndRead(data, opened, wrote)
                IN  /\ tmpWritten' = r.written
                    /\ tmpFile' = IF r.written THEN "exists" ELSE "none"
                    /\ readCalled' = r.read
                    /\ loadResult' = r.result
          /\ pc' = "cleanup"
          /\ UNCHANGED <<exc, caught>>
    /\ UNCHANGED <<eeInitialized, secret, initSteps, ui, data, input_areas, areas_list,
                   gdf, cleanupError, eeCalls, pontos_df, features_list, bio_columns,
                   df_final>>

\* Lines 198-208: the finally clause, then the return or the re-raise.
Finish ==
    IF loadResult.tag = "return"
    THEN /\ gdf' = data.content.feats
         /\ pc' = "counts"
         /\ UNCHANGED <<exc, caught>>
    ELSE /\ exc' = loadResult
         /\ caught' = <<"uploaded_file_to_gdf">>
         /\ pc' = "except_top"
         /\ UNCHANGED gdf

LoadCleanupNeverRemoves ==
    /\ pc = "cleanup"
    /\ UNCHANGED <<tmpFile, cleanupError>>
    /\ Finish
    /\ UNCHANGED <<eeInitialized, secret, initSteps, ui, data, input_areas, areas_list,
                   tmpWritten, readCalled, loadResult, eeCalls, pontos_df,
                   features_list, bio_columns, df_final>>

LoadCleanup ==
    /\ pc = "cleanup"
    /\ \/ \* os.path.exists(file_path) is false: open() never created it.
          /\ tmpFile # "exists"
          /\ UNCHANGED <<tmpFile, cleanupError>>
       \/ \* os.remove succeeds.
          /\ tmpFile = "exists"
          /\ tmpFile' = "removed"
          /\ UNCHANGED cleanupError
       \/ \* os.remove raises: logged, swallowed, the file stays.
          /\ tmpFile = "exists"
          /\ cleanupError' = TRUE
          /\ UNCHANGED tmpFile
    /\ Finish
    /\ UNCHANGED <<eeInitialized, secret, initSteps, ui, data, input_areas, areas_list,
                   tmpWritten, readCalled, loadResult, eeCalls, pontos_df,
                   features_list, bio_columns, df_final>>

\* Lines 355-358: the label count against the geometry count.
CheckCountsNoCheck ==
    /\ pc = "counts"
    /\ pc' = "coords"
    /\ UNCHANGED <<eeInitialized, secret, initSteps, ui, data, input_areas, areas_list,
                   gdf, tmpFile, tmpWritten, readCalled, cleanupError, loadResult, exc, caught,
                   eeCalls, pontos_df, features_list, bio_columns, df_final>>

CheckCounts ==
    /\ pc = "counts"
    /\ \/ /\ Len(gdf) # Len(areas_list)
          /\ ui' = Append(ui, Msg("main", "error", "count_mismatch",
                                  Exc("counts", Len(areas_list), Len(gdf))))
          /\ pc' = "reference"
       \/ /\ Len(gdf) = Len(areas_list)
          /\ pc' = "coords"
          /\ UNCHANGED ui
    /\ UNCHANGED <<eeInitialized, secret, initSteps, data, input_areas, areas_list,
                   gdf, tmpFile, tmpWritten, readCalled, cleanupError, loadResult, exc, caught,
                   eeCalls, pontos_df, features_list, bio_columns, df_final>>

\* Lines 360-361: gdf.geometry.y and .x raise ValueError for a geometry that
\* is not a point.
Coordinates ==
    /\ pc = "coords"
    /\ \/ /\ \E i \in 1..Len(gdf) : ~IsPoint(gdf[i])
          /\ exc' = Exc("not_point", 0, 0)
          /\ pc' = "except_top"
          /\ UNCHANGED pontos_df
       \/ /\ \A i \in 1..Len(gdf) : IsPoint(gdf[i])
          /\ pontos_df' = PontosDf(gdf)
          /\ pc' = "prepare"
          /\ UNCHANGED exc
    /\ UNCHANGED <<eeInitialized, secret, initSteps, ui, data, input_areas, areas_list,
                   gdf, tmpFile, tmpWritten, readCalled, cleanupError, loadResult, caught, eeCalls,
                   features_list, bio_columns, df_final>>

\* An inner handler: its own st.error, then `raise`.
InnerHandlerSwallows(handler, tag, detail, e) ==
    /\ exc' = e
    /\ ui' = Append(ui, Msg("main", "error", tag, detail))
    /\ caught' = Append(caught, handler)
    /\ pc' = "display"

InnerHandler(handler, tag, detail, e) ==
    /\ exc' = e
    /\ ui' = Append(ui, Msg("main", "error", tag, detail))
    /\ caught' = Append(caught, handler)
    /\ pc' = "except_top"

\* Lines 363-372: the region and the dataset's scale.
PrepareEE ==
    /\ pc = "prepare"
    /\ \/ \* geemap.geopandas_to_ee raises.
          /\ eeCalls' = eeCalls \o <<"geopandas_to_ee">>
          /\ InnerHandler("ee_prepare", "ee_prepare_failed", NoExc, Exc("ee_error", 0, 0))
       \/ \* nominalScale().getInfo() raises.
          /\ eeCalls' = eeCalls \o <<"geopandas_to_ee", "nominalScale.getInfo">>
          /\ InnerHandler("ee_prepare", "ee_prepare_failed", NoExc, Exc("ee_error", 0, 0))
       \/ /\ eeCalls' = eeCalls \o <<"geopandas_to_ee", "nominalScale.getInfo">>
          /\ pc' = "extract"
          /\ UNCHANGED <<exc, ui, caught>>
    /\ UNCHANGED <<eeInitialized, secret, initSteps, data, input_areas, areas_list, gdf,
                   tmpFile, tmpWritten, readCalled, cleanupError, loadResult, pontos_df,
                   features_list, bio_columns, df_final>>

\* Lines 374-431: sampling, extraction and merging, with their handler.
Extract ==
    /\ pc = "extract"
    /\ eeCalls' = eeCalls \o <<"sampleRegions", "sampled.getInfo">>
    /\ \/ \* sampled.getInfo() raises.
          /\ InnerHandler("extraction", "extraction_failed", Exc("ee_error", 0, 0),
                          Exc("ee_error", 0, 0))
          /\ UNCHANGED <<features_list, bio_columns, df_final>>
       \/ \* the features arrive and assembly raises.
          \E f \in FeatureLists(Len(gdf)) :
             LET r == Assemble(f, pontos_df, areas_list)
             IN  /\ r.exc # NoExc
                 /\ features_list' = f
                 /\ bio_columns' = r.bio_columns
                 /\ InnerHandler("extraction", "extraction_failed", r.exc, r.exc)
                 /\ UNCHANGED df_final
       \/ \* the features arrive and the table is built.
          \E f \in FeatureLists(Len(gdf)) :
             LET r == Assemble(f, pontos_df, areas_list)
             IN  /\ r.exc = NoExc
                 /\ features_list' = f
                 /\ bio_columns' = r.bio_columns
                 /\ df_final' = r.df_final
                 /\ pc' = "display"
                 /\ UNCHANGED <<exc, ui, caught>>
    /\ UNCHANGED <<eeInitialized, secret, initSteps, data, input_areas, areas_list, gdf,
                   tmpFile, tmpWritten, readCalled, cleanupError, loadResult, pontos_df>>

\* Lines 433-481: the success banner, the metrics, the table, the download.
Display ==
    /\ pc = "display"
    /\ ui' = ui \o <<Main("success", "done"),
                     Msg("main", "metric", "areas", Exc("count", Len(areas_list), 0)),
                     Msg("main", "metric", "variables", Exc("count", Len(bio_columns), 0)),
                     Main("dataframe", "df_final"),
                     Main("download", "csv")>>
    /\ pc' = "reference"
    /\ UNCHANGED <<eeInitialized, secret, initSteps, data, input_areas, areas_list, gdf,
                   tmpFile, tmpWritten, readCalled, cleanupError, loadResult, exc, caught, eeCalls,
                   pontos_df, features_list, bio_columns, df_final>>

\* Lines 483-487: the handler of the whole processing block.
TopHandler ==
    /\ pc = "except_top"
    /\ ui' = ui \o <<Main("error", "generic"), Msg("expander", "error", "detail", exc)>>
    /\ caught' = Append(caught, "top")
    /\ pc' = "reference"
    /\ UNCHANGED <<eeInitialized, secret, initSteps, data, input_areas, areas_list, gdf,
                   tmpFile, tmpWritten, readCalled, cleanupError, loadResult, exc, eeCalls,
                   pontos_df, features_list, bio_columns, df_final>>

\* Lines 494-509: the variable catalogue and the reference.
Reference ==
    /\ pc = "reference"
    /\ ui' = ui \o <<Main("widget", "catalogue"), Main("widget", "reference")>>
    /\ pc' = "done"
    /\ UNCHANGED <<eeInitialized, secret, initSteps, data, input_areas, areas_list, gdf,
                   tmpFile, tmpWritten, readCalled, cleanupError, loadResult, exc, caught, eeCalls,
                   pontos_df, features_list, bio_columns, df_final>>

\* Streamlit runs the script again: the run's variables start afresh, the
\* Earth Engine session stays.
Rerun ==
    /\ pc \in {"done", "stopped"}
    /\ pc' = "start"
    /\ secret' = SecretUnread
    /\ initSteps' = <<>>
    /\ ui' = <<>>
    /\ data' = NoFile
    /\ input_areas' = <<>>
    /\ areas_list' = <<>>
    /\ gdf' = <<>>
    /\ tmpFile' = "none"
    /\ tmpWritten' = FALSE
    /\ readCalled' = FALSE
    /\ cleanupError' = FALSE
    /\ loadResult' = NoExc
    /\ exc' = NoExc
    /\ caught' = <<>>
    /\ eeCalls' = <<>>
    /\ pontos_df' = NoFrame
    /\ features_list' = <<>>
    /\ bio_columns' = <<>>
    /\ df_final' = NoFrame
    /\ UNCHANGED eeInitialized

Next ==
    \/ InitializeEE
    \/ RenderPage
    \/ SplitAreas
    \/ ValidateAreas
    \/ MainGate
    \/ LoadFile
    \/ LoadCleanup
    \/ CheckCounts
    \/ Coordinates
    \/ PrepareEE
    \/ Extract
    \/ Display
    \/ TopHandler
    \/ Reference
    \/ Rerun

Spec == Init /\ [][Next]_vars

(* ------------------------ vocabulary of the claims --------------------- *)

\* The run is past the branch of line 350.
PastGate == pc \notin {"start", "page", "split", "validate", "main", "stopped"}

\* uploaded_file_to_gdf was called and has returned or raised.
LoadEnded ==
    /\ PastGate
    /\ pc \notin {"load", "cleanup"}
    /\ data.present /\ areas_list # <<>>

Shown(kind) == \E i \in 1..Len(ui) : ui[i].kind = kind

\* No result table, success banner or download was rendered or built.
NoResult ==
    /\ df_final = NoFrame
    /\ ~Shown("dataframe") /\ ~Shown("download") /\ ~Shown("metric")
    /\ \A i \in 1..Len(ui) : ui[i] # Main("success", "done")

\* No call of the remote attribute fetcher was made.
NoFetch == eeCalls = <<>> /\ features_list = <<>>

Called(c) == \E i \in 1..Len(eeCalls) : eeCalls[i] = c

\* sampled.getInfo() returned its feature list (it did not raise).
Fetched == Called("sampled.getInfo") /\ exc.tag # "ee_error"

\* The attribute rows: the properties of the features that have any.
AttributeRows == {i \in 1..Len(features_list) : features_list[i] # <<>>}

RowAt(k) == features_list[Nth(AttributeRows, k)]

AttributeKeys ==
    UNION {{features_list[i][j].k : j \in 1..Len(features_list[i])} : i \in AttributeRows}

\* Keys that contain "bio" whatever the case.
BioKeys ==
    {k \in AttributeKeys :
        \E a \in 1..Len(k) - 2 :
            /\ k[a] \in {"b", "B"} /\ k[a + 1] \in {"i", "I"} /\ k[a + 2] \in {"o", "O"}}

\* Keys whose every value is a number.
NumericKeys ==
    {k \in AttributeKeys :
        \A i \in AttributeRows : \A j \in 1..Len(features_list[i]) :
            features_list[i][j].k = k => features_list[i][j].v.t = "num"}

SeqSet(xs) == {xs[i] : i \in 1..Len(xs)}

NoDuplicates(xs) == \A i, j \in 1..Len(xs) : xs[i] = xs[j] => i = j

\* The value a properties dict gives a key, NaN when it has none.
ValueOf(row, k) ==
    IF \E j \in 1..Len(row) : row[j].k = k
    THEN row[CHOOSE j \in 1..Len(row) : row[j].k = k].v
    ELSE NaN

MismatchMessage ==
    Msg("main", "error", "count_mismatch", Exc("counts", Len(areas_list), Len(gdf)))

(* -------------------------------- C1 ----------------------------------- *)

\* C1: whenever the loaded point set and the label list differ in length,
\* the run reports the mismatch naming both counts and ends without any
\* call of the remote fetcher and without a result table or download; and
\* no run whose uploaded feature count differs from its label count ever
\* calls the fetcher or produces a result.
C1_MismatchEndsBeforeFetch ==
    /\ (gdf # <<>> /\ Len(gdf) # Len(areas_list)) =>
          /\ NoFetch /\ NoResult /\ exc = NoExc
          /\ pc \in {"counts", "reference", "done"}
          /\ pc # "counts" => \E i \in 1..Len(ui) : ui[i] = MismatchMessage
    /\ (/\ PastGate
        /\ data.present /\ data.content.ok
        /\ Len(data.content.feats) # Len(areas_list)) => NoFetch /\ NoResult

\* Two geometries, three labels: the run ended on the mismatch message.
C1_Witness ==
    /\ pc = "done"
    /\ Len(gdf) = 2 /\ Len(areas_list) = 3
    /\ \E i \in 1..Len(ui) : ui[i] = MismatchMessage
    /\ NoFetch

(* -------------------------------- C2 ----------------------------------- *)

\* The files the claim says are rejected.
RejectedFile(f) ==
    /\ f.present
    /\ \/ f.size > MAX_FILE_SIZE
       \/ Lower(PathSuffix(f.name)) \notin ALLOWED_EXTENSIONS
       \/ \E p \in { <<".", ".">>, <<"/">>, <<"\\">>, <<"<">>, <<">">>, <<"|">>,
                     <<"*">>, <<"?">> } : Contains(f.name, p)

\* C2: for an uploaded file that is too large, has a disallowed extension or
\* a dangerous name, uploaded_file_to_gdf raises the validation error and no
\* temporary file is ever created or written and gpd.read_file never called.
C2_RejectedFileNeverParsed ==
    RejectedFile(data) =>
        /\ ~tmpWritten /\ tmpFile = "none" /\ ~readCalled
        /\ gdf = <<>>
        /\ pc # "cleanup"
        /\ LoadEnded =>
              /\ exc.tag \in {"too_large", "extension", "name"}
              /\ caught[1] = "uploaded_file_to_gdf"

\* An oversized file has been refused by uploaded_file_to_gdf.
C2_Witness ==
    /\ pc = "except_top"
    /\ RejectedFile(data)
    /\ data.size = MAX_FILE_SIZE + 1
    /\ exc.tag = "too_large"

(* -------------------------------- C3 ----------------------------------- *)

C4_AlwaysRowMismatchError ==
    (Fetched /\ Cardinality(AttributeRows) # Len(gdf)) =>
        /\ exc = Exc("row_mismatch", Len(gdf), Cardinality(AttributeRows))
        /\ NoResult

\* C4, amended: whenever the number of attribute rows differs from the
\* number of points, assembly fails and no result table is built, shown or
\* offered for download; the error is the row-count mismatch carrying both
\* counts unless an earlier check fires first: "no data" for an empty
\* feature list, "empty data" when every feature has empty properties, "no
\* variable" when no column is retained.
C4_RowMismatchFails ==
    (Fetched /\ Cardinality(AttributeRows) # Len(gdf)) =>
        /\ NoResult
        /\ pc \in {"except_top", "reference", "done"}
        /\ caught[1] = "extraction"
        /\ exc = IF features_list = <<>> THEN Exc("no_data", 0, 0)
                 ELSE IF AttributeRows = {} THEN Exc("empty_data", 0, 0)
                 ELSE IF BioKeys = {} /\ NumericKeys = {} THEN Exc("no_variable", 0, 0)
                 ELSE Exc("row_mismatch", Len(gdf), Cardinality(AttributeRows))

\* Two points, two features of which one has empty properties: 2 vs 1.
C4_Witness ==
    /\ pc = "done"
    /\ Len(features_list) = 2
    /\ exc = Exc("row_mismatch", 2, 1)
    /\ NoResult

(* -------------------------------- C5 ----------------------------------- *)

\* C5: with as many points as labels as attribute rows, the result table
\* has one column per label in label order, the rows latitude, longitude
\* and then the retained variables, and each cell holds the latitude, the
\* longitude or the attribute value of the point at the column's position;
\* and with those counts equal and some variable retained the table is built.
C5_TablePositional ==
    /\ df_final # NoFrame =>
          /\ Len(gdf) = Len(areas_list)
          /\ Cardinality(AttributeRows) = Len(areas_list)
          /\ df_final.columns = areas_list
          /\ df_final.index = <<latitude, longitude>> \o bio_columns
          /\ Len(df_final.values) = 2 + Len(bio_columns)
          /\ \A r \in 1..Len(df_final.values) :
                Len(df_final.values[r]) = Len(areas_list)
          /\ \A i \in 1..Len(areas_list) :
                /\ df_final.values[1][i] = Num(gdf[i].y)
                /\ df_final.values[2][i] = Num(gdf[i].x)
                /\ \A r \in 1..Len(bio_columns) :
                      df_final.values[2 + r][i] = ValueOf(RowAt(i), bio_columns[r])
    /\ (/\ pc = "done" /\ Fetched
        /\ Cardinality(AttributeRows) = Len(gdf)
        /\ (BioKeys # {} \/ NumericKeys # {})) =>
          /\ df_final # NoFrame
          /\ Shown("dataframe") /\ Shown("download")

\* Two distinct points labelled A and B with two different attribute rows.
C5_Witness ==
    /\ pc = "done"
    /\ gdf = <<Point1, Point2>>
    /\ df_final.columns = << <<"A">>, <<"B">> >>
    /\ df_final.index = <<latitude, longitude, BIO01, bio12>>
    /\ df_final.values = << <<Num(-2780), Num(-2785)>>,
                            <<Num(-5010), Num(-5020)>>,
                            <<Num(180), NaN>>,
                            <<Num(1500), NaN>> >>

(* -------------------------------- C6 ----------------------------------- *)

\* C6: the retained columns are every attribute key containing "bio" in any
\* case; when no key matches, and only then, they are all numeric keys; the
\* "no variable" error is raised exactly when there is neither a matching
\* nor a numeric key.
C6_RetainedColumns ==
    (Fetched /\ AttributeRows # {}) =>
        /\ NoDuplicates(bio_columns)
        /\ BioKeys # {} => SeqSet(bio_columns) = BioKeys
        /\ BioKeys = {} => SeqSet(bio_columns) = NumericKeys
        /\ exc.tag = "no_variable" <=> (BioKeys = {} /\ NumericKeys = {})

\* No key contains "bio": the numeric key elev alone is retained.
C6_Witness ==
    /\ pc = "done"
    /\ Fetched
    /\ BioKeys = {}
    /\ bio_columns = <<elev>>
    /\ df_final # NoFrame

(* -------------------------------- C7 ----------------------------------- *)

\* The label lists the claim says are rejected.
RejectedLabels(L) ==
    \/ L = <<>>
    \/ Len(L) > MAX_AREAS
    \/ \E i \in 1..Len(L) : Len(L[i]) > MAX_AREA_NAME_LENGTH
    \/ \E i \in 1..Len(L) : \E k \in 1..Len(L[i]) :
          L[i][k] \in {"<", ">", "\"", "'", "&", "\n", "\r", "\t"}

LabelsErrorShown == \E i \in 1..Len(ui) : ui[i].tag = "labels_invalid"

\* C7: after validation the label list is empty exactly when the parsed list
\* is empty, has more than MAX_AREAS labels, a label longer than
\* MAX_AREA_NAME_LENGTH or a label with a markup or control character
\* (reported as an error unless nothing was typed); and a run whose label
\* list is empty parses no geometry, calls no remote service and builds no
\* result table.
C7_RejectedLabelsStopRun ==
    /\ pc = "main" =>
          LET L == ParseAreas(input_areas)
          IN  IF RejectedLabels(L)
              THEN /\ areas_list = <<>>
                   /\ LabelsErrorShown <=> input_areas # <<>>
              ELSE /\ areas_list = L
                   /\ ~LabelsErrorShown
    /\ ((pc = "main" \/ PastGate) /\ areas_list = <<>>) =>
          /\ pc \in {"main", "reference", "done"}
          /\ ~readCalled /\ ~tmpWritten /\ tmpFile = "none" /\ gdf = <<>>
          /\ NoFetch /\ NoResult

\* MAX_AREAS + 1 labels with a file uploaded: the run ended without loading.
C7_Witness ==
    /\ pc = "done"
    /\ data.present
    /\ Len(input_areas) = 2 * (MAX_AREAS + 1) - 1
    /\ \E i \in 1..Len(ui) :
          ui[i].tag = "labels_invalid" /\ ui[i].detail.tag = "too_many"
    /\ areas_list = <<>>
    /\ ~readCalled

(* -------------------------------- C8 ----------------------------------- *)

\* Positions of s holding neither whitespace nor a comma.
LabelChar(s, i) == s[i] \notin {" ", "\t", "\n", "\r"} /\ s[i] # ","

\* The first label character after a comma (or the start): every earlier
\* label character is separated from it by a comma.
LabelStarts(s) ==
    {i \in 1..Len(s) :
        /\ LabelChar(s, i)
        /\ \A j \in 1..(i - 1) :
              LabelChar(s, j) => \E m \in (j + 1)..(i - 1) : s[m] = ","}

\* The last label character before a comma (or the end): every later label
\* character is separated from it by a comma.
LabelEnds(s) ==
    {i \in 1..Len(s) :
        /\ LabelChar(s, i)
        /\ \A j \in (i + 1)..Len(s) :
              LabelChar(s, j) => \E m \in (i + 1)..(j - 1) : s[m] = ","}

\* C8: the parsed list holds, in the order of the raw string, exactly the
\* stretches from the first to the last non-whitespace character between
\* two commas; no label is empty or starts or ends with whitespace, and
\* "A, B ,C," gives A, B, C.
C8_ParsedLabels ==
    pc = "validate" =>
        LET starts == LabelStarts(input_areas)
            ends == LabelEnds(input_areas)
        IN  /\ Len(areas_list) = Cardinality(starts)
            /\ \A k \in 1..Len(areas_list) :
                  /\ areas_list[k] = SubSeq(input_areas, Nth(starts, k), Nth(ends, k))
                  /\ areas_list[k] # <<>>
                  /\ areas_list[k][1] \notin {" ", "\t", "\n", "\r"}
                  /\ areas_list[k][Len(areas_list[k])] \notin {" ", "\t", "\n", "\r"}
            /\ input_areas = <<"A", ",", " ", "B", " ", ",", "C", ",">> =>
                  areas_list = << <<"A">>, <<"B">>, <<"C">> >>

\* "A, B ,C," has been parsed.
C8_Witness ==
    /\ pc = "validate"
    /\ input_areas = <<"A", ",", " ", "B", " ", ",", "C", ",">>
    /\ Len(areas_list) = 3

(* -------------------------------- C9 ----------------------------------- *)

\* The session is halted: nothing of the page was rendered or processed.
Halted ==
    /\ pc = "stopped"
    /\ \A i \in 1..Len(ui) : ui[i].kind # "widget"
    /\ Shown("error")
    /\ data = NoFile /\ input_areas = <<>> /\ areas_list = <<>>
    /\ ~tmpWritten /\ ~readCalled
    /\ NoFetch /\ NoResult

InitStep(c) == \E i \in 1..Len(initSteps) : initSteps[i] = c

\* C9 as claimed: credentials that are absent, not JSON or lacking a
\* required field always halt the session.
C9_BadCredentialsAlwaysHalt ==
    (/\ secret.read
     /\ (~secret.present \/ ~secret.json_ok \/ secret.fields # RequiredFields)) =>
        Halted

\* C9, amended: the three required fields are validated before the
\* credentials are used; credentials that are not JSON or lack a required
\* field halt the session before any use, with no page rendered; absent
\* credentials make the code try a local initialisation instead, and the
\* session halts only if that fails.
C9_CredentialGate ==
    /\ (secret.read /\ secret.present
        /\ (~secret.json_ok \/ secret.fields # RequiredFields)) =>
          /\ Halted
          /\ ~InitStep("ServiceAccountCredentials") /\ ~InitStep("ee.Initialize")
          /\ ~eeInitialized
    /\ InitStep("ServiceAccountCredentials") =>
          /\ secret.fields = RequiredFields
          /\ initSteps[2] = "validate_fields" /\ initSteps[3] = "ServiceAccountCredentials"
    /\ (secret.read /\ ~secret.present) =>
          /\ initSteps = <<"ee.Initialize">>
          /\ IF eeInitialized THEN pc # "stopped" ELSE Halted
    /\ pc = "stopped" => Halted /\ ~eeInitialized

\* Credentials with one required field missing have halted the session.
C9_Witness ==
    /\ pc = "stopped"
    /\ secret.json_ok
    /\ Cardinality(secret.fields) = 2
    /\ initSteps = <<"json.loads", "validate_fields">>

(* -------------------------------- C10 ---------------------------------- *)

Count(xs, x) == Cardinality({i \in 1..Len(xs) : xs[i] = x})

\* The message the stage's own handler shows before re-raising.
InnerMessage ==
    IF Called("sampleRegions")
    THEN Msg("main", "error", "extraction_failed", exc)
    ELSE Main("error", "ee_prepare_failed")

\* C10 as claimed: a pipeline exception is caught once, by the top-level
\* handler alone, and the primary view shows one generic message without
\* the detail.
C10_CaughtOnceAtTop ==
    (pc = "done" /\ exc # NoExc /\ eeCalls # <<>>) =>
        /\ caught = <<"top">>
        /\ Cardinality({i \in 1..Len(ui) :
                           ui[i].kind = "error" /\ ui[i].place = "main"}) = 1
        /\ \A i \in 1..Len(ui) :
              (ui[i].kind = "error" /\ ui[i].place = "main") => ui[i].detail = NoExc
        /\ NoResult

\* C10, amended: a pipeline exception is first caught by its stage's own
\* handler (preparation or extraction), which shows its own error (with the
\* exception text, for extraction) and re-raises; the top-level handler then
\* catches it once, shows one generic message and the detail inside the
\* expander; nothing escapes, no result table is shown and the run goes on
\* to the reference sections.
C10_HandledThenGeneric ==
    /\ pc = "except_top" => exc # NoExc
    /\ (pc \in {"reference", "done"} /\ exc # NoExc) =>
          /\ Count(caught, "top") = 1 /\ caught[Len(caught)] = "top"
          /\ Count(ui, Main("error", "generic")) = 1
          /\ \E i \in 1..(Len(ui) - 1) :
                /\ ui[i] = Main("error", "generic")
                /\ ui[i + 1] = Msg("expander", "error", "detail", exc)
          /\ NoResult
          /\ eeCalls # <<>> =>
                /\ caught = <<IF Called("sampleRegions") THEN "extraction"
                              ELSE "ee_prepare", "top">>
                /\ \E i, j \in 1..Len(ui) :
                      /\ i < j
                      /\ ui[i] = InnerMessage
                      /\ ui[j] = Main("error", "generic")
          /\ pc = "done" => ui[Len(ui)] = Main("widget", "reference")

\* A failed sampled.getInfo() went through both handlers to the end.
C10_Witness ==
    /\ pc = "done"
    /\ caught = <<"extraction", "top">>
    /\ exc.tag = "ee_error"
    /\ ui[Len(ui)] = Main("widget", "reference")

(* -------------------------------- C11 ---------------------------------- *)

\* uploaded_file_to_gdf returned a geometry set (line 196) in this run.
LoaderReturned == gdf # <<>> \/ (LoadEnded /\ loadResult.tag = "return")

\* C11: uploaded_file_to_gdf never returns successfully a geometry set that
\* has zero features or holds a geometry that is not a point: a file with
\* zero features or with a line or polygon makes the loader raise, so no
\* such set reaches the coordinate extraction or the remote fetch.
C11_LoaderRejectsEmptyAndNonPoint ==
    /\ LoaderReturned =>
          /\ gdf # <<>>
          /\ \A i \in 1..Len(gdf) : IsPoint(gdf[i])
    /\ (/\ LoadEnded /\ readCalled /\ data.content.ok
        /\ \/ data.content.feats = <<>>
           \/ \E i \in 1..Len(data.content.feats) : ~IsPoint(data.content.feats[i])) =>
          /\ gdf = <<>>
          /\ caught[1] = "uploaded_file_to_gdf"
    /\ pc = "coords" => \A i \in 1..Len(gdf) : IsPoint(gdf[i])

\* What the code does with such sets: a parsed file with zero features makes
\* the loader raise "empty file"; a set holding a non-point geometry is
\* returned by the loader, passes the count check when the labels are as
\* many, and is stopped only by the coordinate access of line 360, whose
\* error the top-level handler alone catches; no remote call is made for it.
C11_NonPointStopsAtCoordinates ==
    /\ (LoadEnded /\ readCalled /\ data.content.ok /\ data.content.feats = <<>>) =>
          /\ gdf = <<>> /\ exc.tag = "empty_file"
          /\ caught[1] = "uploaded_file_to_gdf"
    /\ (\E i \in 1..Len(gdf) : ~IsPoint(gdf[i])) =>
          /\ NoFetch /\ NoResult
          /\ pontos_df = NoFrame
          /\ pc \in {"counts", "coords", "except_top", "reference", "done"}
          /\ (pc \in {"except_top", "reference", "done"} /\ Len(gdf) = Len(areas_list)) =>
                exc.tag = "not_point"
          /\ pc \in {"reference", "done"} /\ exc.tag = "not_point" => caught = <<"top">>

\* A line uploaded with one label was returned by the loader and reached
\* the coordinate extraction.
C11_NonPointReturned ==
    /\ pc = "coords"
    /\ gdf = <<Line1>>
    /\ Len(areas_list) = 1

====
